---- MODULE Spec2Model ----
(***************************************************************************)
(* The review-selection-apply workflow of the Bluesky Alt-Text Slinger     *)
(* frontend: the state of the App component (App.tsx), its event handlers  *)
(* and the continuations of its two network calls (api.ts).                *)
(*                                                                         *)
(* Every handler runs to its first await as one atomic step; the part      *)
(* after the await is a second step that fires when the request resolves.  *)
(* A handler is a closure over the state of the render it was created in,  *)
(* so a request in flight carries the `result` and `altState` its handler  *)
(* captured, and its continuation reads those, not the current state.      *)
(***************************************************************************)
EXTENDS Integers, Sequences, FiniteSets, TLC

VARIABLES
    handle,          \* useState("")            App.tsx:36
    appPassword,     \* useState("")            App.tsx:37
    loading,         \* useState(false)         App.tsx:38
    applying,        \* useState(false)         App.tsx:39
    error,           \* useState<string|null>   App.tsx:40
    applyMessage,    \* useState<string|null>   App.tsx:41
    result,          \* useState<ScanResponse|null>  App.tsx:42
    altState,        \* useState<AltStateMap>   App.tsx:43
    filterMode,      \* useState<FilterMode>    App.tsx:44
    scanCalls,       \* scanImages requests in flight, in issue order
    applyCalls,      \* applyAltUpdates requests in flight, in issue order
    scanGen,         \* history: number of onSubmit calls so far
    resultGen,       \* history: the onSubmit call the stored result stems from
    nOps,            \* history: number of handler calls so far
    answered,        \* history: the answer most recently delivered
    lastCall,        \* history: the handler called most recently
    reentered        \* history: a trigger ran while its flag was set

vars == <<handle, appPassword, loading, applying, error, applyMessage, result,
          altState, filterMode, scanCalls, applyCalls, scanGen, resultGen,
          nOps, answered, lastCall, reentered>>

----------------------------------------------------------------------------
(* Bounds of the model.                                                    *)

MaxOps == 3          \* onSubmit, onApplyChanges, edit, bulk and filter calls
MaxPending == 2      \* requests of one kind in flight at a time
MaxUpdated == 2      \* items in an apply response's `updated` list

----------------------------------------------------------------------------
(* Values.                                                                 *)

\* JavaScript null / undefined of a `string | null` slot.  No text of the
\* model equals it.
Null == "<null>"

\* `result === null`: the state before any scan and after every onSubmit.
NoResult == [isNull |-> TRUE]

\* JavaScript truthiness of a `string | null | undefined` value.
Truthy(s) == s # Null /\ s # ""

IsWhite(c) == c \in {" ", "\t", "\n"}

RECURSIVE TrimStart(_)
TrimStart(s) ==
    IF Len(s) = 0 THEN s
    ELSE IF IsWhite(SubSeq(s, 1, 1)) THEN TrimStart(SubSeq(s, 2, Len(s)))
    ELSE s

RECURSIVE TrimEnd(_)
TrimEnd(s) ==
    IF Len(s) = 0 THEN s
    ELSE IF IsWhite(SubSeq(s, Len(s), Len(s))) THEN TrimEnd(SubSeq(s, 1, Len(s) - 1))
    ELSE s

\* String.prototype.trim
Trim(s) == TrimEnd(TrimStart(s))

\* `${uri}::${index}`
makeKey(uri, index) == uri \o "::" \o ToString(index)

\* img.alt && img.alt.trim().length > 0
HasAlt(img) == Truthy(img.alt) /\ Len(Trim(img.alt)) > 0

\* img.alt && img.alt.trim().length > 0 ? img.alt : img.generated_alt || ""
BaseAlt(img) ==
    IF HasAlt(img) THEN img.alt
    ELSE IF Truthy(img.generated_alt) THEN img.generated_alt ELSE ""

----------------------------------------------------------------------------
(* Inputs: what the two endpoints may answer and what the user may type.   *)

Image(i, a, g) == [index |-> i, alt |-> a, generated_alt |-> g]
Post(u, imgs) == [uri |-> u, images |-> imgs]
Scan(ps) == [isNull |-> FALSE, posts |-> ps]

URIS == {"at://a/1", "at://a/2"}

\* Scan responses.  The backend numbers the images of a post by position and
\* lists every post once, so no two images of a response share (uri, index).
ScanResponses ==
    { Scan(<<>>),
      Scan(<<Post("at://a/1", <<Image(0, Null, Null)>>)>>),
      Scan(<<Post("at://a/1", <<Image(0, "", "a dog"), Image(1, " cat ", "a cat")>>)>>),
      Scan(<<Post("at://a/1", <<Image(0, Null, "a dog")>>),
             Post("at://a/2", <<Image(0, " ", "")>>)>>) }

\* Text the user may type into a draft box.
Drafts == {" ", " dog "}

\* Text the user may type into the credential inputs: the handle may be
\* typed and cleared again, the password is typed once.
Handles == {"", "me.bsky.social"}
Passwords == {"abcd-efgh"}

FilterModes == {"all", "missingAlt", "hasAlt", "selected"}

\* An apply response body {updated: ApplyResultItem[]}: any list of at most
\* MaxUpdated items; the server decides its length and its success flags.
ApplyResultItems == [uri : {"at://a/1"}, success : BOOLEAN]

ApplyResponses ==
    UNION {[1..n -> ApplyResultItems] : n \in 0..MaxUpdated}

\* Bodies of non-success responses.
ErrBodies ==
    { "",
      "Internal Server Error",
      "{\"detail\":\"Invalid handle or app password\"}",
      "{\"detail\":[\"updates\",\"field required\"]}",
      "{\"message\":\"rate limited\"}" }

\* throw new Error(text || `HTTP error ${res.status}`)
ThrownMessage(text, status) ==
    IF text # "" THEN text ELSE "HTTP error " \o ToString(status)

\* err.message of whatever the awaited call rejects with: the Error thrown on a
\* non-success response (here of status 500), or the TypeError of a fetch that
\* never got a response.
ErrMessages ==
    {ThrownMessage(b, 500) : b \in ErrBodies} \cup {"Failed to fetch"}

\* The rejections the workflow is explored with: one whose message is an
\* error envelope and one whose message is plain text.
RejectMessages ==
    { ThrownMessage("{\"detail\":\"Invalid handle or app password\"}", 401),
      "Failed to fetch" }

\* JSON.parse on the texts above: ok = FALSE stands for the SyntaxError it
\* throws.  truthyDetail is `parsed?.detail` as a condition, isString is
\* typeof parsed.detail === "string", detail the string itself and json the
\* text JSON.stringify(parsed.detail) gives.
JSONParse(text) ==
    CASE text = "{\"detail\":\"Invalid handle or app password\"}" ->
            [ok |-> TRUE, truthyDetail |-> TRUE, isString |-> TRUE,
             detail |-> "Invalid handle or app password",
             json |-> "\"Invalid handle or app password\""]
      [] text = "{\"detail\":[\"updates\",\"field required\"]}" ->
            [ok |-> TRUE, truthyDetail |-> TRUE, isString |-> FALSE,
             detail |-> Null,
             json |-> "[\"updates\",\"field required\"]"]
      [] text = "{\"message\":\"rate limited\"}" ->
            [ok |-> TRUE, truthyDetail |-> FALSE, isString |-> FALSE,
             detail |-> Null, json |-> Null]
      [] OTHER ->
            [ok |-> FALSE, truthyDetail |-> FALSE, isString |-> FALSE,
             detail |-> Null, json |-> Null]

\* A slip in the catch blocks: a message that parses but has no detail is
\* shown as it is.
ErrorTextRawFirst(message, generic) ==
    LET parsed == JSONParse(message) IN
    IF parsed.ok /\ parsed.truthyDetail
    THEN (IF parsed.isString THEN parsed.detail ELSE parsed.json)
    ELSE IF message # "" THEN message ELSE generic

\* The catch blocks of onSubmit and onApplyChanges: msg starts as the generic
\* text, becomes the detail when the message parses and has a truthy detail,
\* and the message itself only when JSON.parse throws.
ErrorText(message, generic) ==
    LET parsed == JSONParse(message) IN
    IF parsed.ok
    THEN IF parsed.truthyDetail
         THEN (IF parsed.isString THEN parsed.detail ELSE parsed.json)
         ELSE generic
    ELSE IF message # "" THEN message ELSE generic

----------------------------------------------------------------------------
(* Pure parts of the handlers.                                             *)

EmptyMap == [k \in {} |-> [apply |-> FALSE, draftAlt |-> ""]]

\* { ...prev, [key]: value }
Put(map, key, value) ==
    [k \in DOMAIN map \cup {key} |-> IF k = key THEN value ELSE map[k]]

\* The images of a scan result in the order of
\* posts.forEach(post => post.images.forEach(img => ...)).
RECURSIVE AllImages(_)
AllImages(posts) ==
    IF posts = <<>> THEN <<>>
    ELSE [k \in 1..Len(Head(posts).images) |->
            [uri |-> Head(posts).uri, img |-> Head(posts).images[k]]]
         \o AllImages(Tail(posts))

\* A slip in the default: the suggestion is preferred to the existing alt.
DefaultStateSuggestionFirst(img) ==
    [apply |-> (~Truthy(img.alt)) \/ Len(Trim(img.alt)) = 0,
     draftAlt |-> IF Truthy(img.generated_alt) THEN img.generated_alt
                  ELSE IF Truthy(img.alt) THEN img.alt ELSE ""]

\* A slip in the default: the existing alt is tested without trimming.
DefaultStateUntrimmed(img) ==
    [apply |-> ~Truthy(img.alt),
     draftAlt |-> IF Truthy(img.alt) THEN img.alt
                  ELSE IF Truthy(img.generated_alt) THEN img.generated_alt ELSE ""]

\* The entry initAltStateFromResult stores for one image.
DefaultState(img) ==
    [apply |-> (~Truthy(img.alt)) \/ Len(Trim(img.alt)) = 0,
     draftAlt |-> BaseAlt(img)]

RECURSIVE InitFold(_, _)
InitFold(next, items) ==
    IF items = <<>> THEN next
    ELSE LET uri == Head(items).uri
             img == Head(items).img
         IN  InitFold(Put(next, makeKey(uri, img.index), DefaultState(img)),
                      Tail(items))

initAltStateFromResult(data) == InitFold(EmptyMap, AllImages(data.posts))

\* A slip in the batch: the `if (!draft) return` line is missing.
RECURSIVE BuildUpdatesKeepEmpty(_, _)
BuildUpdatesKeepEmpty(items, states) ==
    IF items = <<>> THEN <<>>
    ELSE LET uri == Head(items).uri
             img == Head(items).img
             key == makeKey(uri, img.index)
             rest == BuildUpdatesKeepEmpty(Tail(items), states)
         IN  IF key \notin DOMAIN states \/ ~states[key].apply THEN rest
             ELSE <<[uri |-> uri, image_index |-> img.index,
                     new_alt |-> Trim(states[key].draftAlt)]>> \o rest

\* The forEach loops of onApplyChanges that fill `updates`.
RECURSIVE BuildUpdates(_, _)
BuildUpdates(items, states) ==
    IF items = <<>> THEN <<>>
    ELSE LET uri == Head(items).uri
             img == Head(items).img
             key == makeKey(uri, img.index)
             rest == BuildUpdates(Tail(items), states)
         IN  IF key \notin DOMAIN states \/ ~states[key].apply THEN rest
             ELSE IF Trim(states[key].draftAlt) = "" THEN rest
             ELSE <<[uri |-> uri, image_index |-> img.index,
                     new_alt |-> Trim(states[key].draftAlt)]>> \o rest

\* updates.length === 0, and a slip that never takes the short cut.
NoUpdatesNever(updates) == FALSE

NoUpdates(updates) == Len(updates) = 0

\* A slip in the merge: it reads the selection state of the latest render
\* instead of the one the handler captured.
MergeImageLatest(uri, img, states) ==
    LET key == makeKey(uri, img.index) IN
    IF key \in DOMAIN altState /\ altState[key].apply
       /\ Trim(altState[key].draftAlt) # ""
    THEN [img EXCEPT !.alt = Trim(altState[key].draftAlt)]
    ELSE img

\* The image map of the optimistic update.
MergeImage(uri, img, states) ==
    LET key == makeKey(uri, img.index) IN
    IF key \in DOMAIN states /\ states[key].apply /\ Trim(states[key].draftAlt) # ""
    THEN [img EXCEPT !.alt = Trim(states[key].draftAlt)]
    ELSE img

\* A slip in the success path: the optimistic update is left out.
MergeResultUntouched(res, states) == res

\* nextResult = { ...result, posts: result.posts.map(...) }
MergeResult(res, states) ==
    [res EXCEPT !.posts =
        [p \in 1..Len(res.posts) |->
            [res.posts[p] EXCEPT !.images =
                [i \in 1..Len(res.posts[p].images) |->
                    MergeImage(res.posts[p].uri, res.posts[p].images[i], states)]]]]

\* `Applied alt text to ${successes} post(s).` + (failures > 0 ? ... : "")
Successes(updated) == Cardinality({i \in 1..Len(updated) : updated[i].success})

\* A slip in the summary: the failure clause is not guarded by failures > 0.
SummaryMessageAlwaysFailed(updated) ==
    LET successes == Successes(updated)
        failures == Len(updated) - successes
    IN  "Applied alt text to " \o ToString(successes) \o " post(s)."
        \o " " \o ToString(failures) \o " post(s) failed; check logs/errors."

SummaryMessage(updated) ==
    LET successes == Successes(updated)
        failures == Len(updated) - successes
    IN  "Applied alt text to " \o ToString(successes) \o " post(s)."
        \o (IF failures > 0
            THEN " " \o ToString(failures) \o " post(s) failed; check logs/errors."
            ELSE "")

\* altState[key] || { apply: false, draftAlt: ... } of the render.
Displayed(uri, img) ==
    LET key == makeKey(uri, img.index) IN
    IF key \in DOMAIN altState THEN altState[key]
    ELSE [apply |-> FALSE, draftAlt |-> BaseAlt(img)]

\* A slip in the filter: the existing alt is tested without trimming.
shouldShowImageUntrimmed(mode, uri, img) ==
    LET key == makeKey(uri, img.index)
        isSelected == key \in DOMAIN altState /\ altState[key].apply
    IN  CASE mode = "missingAlt" -> ~Truthy(img.alt)
          [] mode = "hasAlt" -> Truthy(img.alt)
          [] mode = "selected" -> isSelected
          [] OTHER -> TRUE

shouldShowImage(mode, uri, img) ==
    LET key == makeKey(uri, img.index)
        isSelected == key \in DOMAIN altState /\ altState[key].apply
    IN  CASE mode = "missingAlt" -> ~HasAlt(img)
          [] mode = "hasAlt" -> HasAlt(img)
          [] mode = "selected" -> isSelected
          [] OTHER -> TRUE

\* The cards on screen: the images of the stored result that pass the filter.
Cards ==
    IF result = NoResult THEN {}
    ELSE LET items == AllImages(result.posts) IN
         {items[k] : k \in {j \in 1..Len(items) :
                              shouldShowImage(filterMode, items[j].uri, items[j].img)}}

Remove(seq, i) == SubSeq(seq, 1, i - 1) \o SubSeq(seq, i + 1, Len(seq))

----------------------------------------------------------------------------
(* The state machine.                                                      *)

\* `answered` names the call answered last ("scan" or "apply"), whether it
\* resolved (ok) or rejected, the `updated` list of a resolved apply and the
\* message of a rejection.
NoAnswer == [call |-> "none", ok |-> TRUE, updated |-> <<>>, message |-> Null]
Resolved(call, updated) ==
    [call |-> call, ok |-> TRUE, updated |-> updated, message |-> Null]
Rejected(call, message) ==
    [call |-> call, ok |-> FALSE, updated |-> <<>>, message |-> message]

Init ==
    /\ handle = ""
    /\ appPassword = ""
    /\ loading = FALSE
    /\ applying = FALSE
    /\ error = Null
    /\ applyMessage = Null
    /\ result = NoResult
    /\ altState = EmptyMap
    /\ filterMode = "all"
    /\ scanCalls = <<>>
    /\ applyCalls = <<>>
    /\ scanGen = 0
    /\ resultGen = 0
    /\ nOps = 0
    /\ answered = NoAnswer
    /\ lastCall = "none"
    /\ reentered = FALSE

\* onChange of the two credential inputs.
setHandle(v) ==
    /\ v # handle
    /\ handle' = v
    /\ UNCHANGED <<appPassword, loading, applying, error, applyMessage,
                   result, altState, filterMode, scanCalls, applyCalls,
                   scanGen, resultGen, nOps, answered, lastCall, reentered>>

setAppPassword(v) ==
    /\ v # appPassword
    /\ appPassword' = v
    /\ UNCHANGED <<handle, loading, applying, error, applyMessage, result,
                   altState, filterMode, scanCalls, applyCalls, scanGen,
                   resultGen, nOps, answered, lastCall, reentered>>

\* A slip in onSubmit: the credentials are validated before anything is
\* cleared.
onSubmitValidatesFirst ==
    /\ lastCall' = "onSubmit"
    /\ nOps < MaxOps
    /\ Len(scanCalls) < MaxPending
    /\ nOps' = nOps + 1
    /\ scanGen' = scanGen + 1
    /\ reentered' = (reentered \/ loading)
    /\ IF handle = "" \/ appPassword = ""
       THEN /\ error' = "Please enter both handle and app password."
            /\ UNCHANGED <<loading, scanCalls, applyMessage, result, altState,
                           resultGen>>
       ELSE /\ error' = Null
            /\ applyMessage' = Null
            /\ result' = NoResult
            /\ altState' = EmptyMap
            /\ resultGen' = 0
            /\ loading' = TRUE
            /\ scanCalls' = Append(scanCalls,
                   [handle |-> handle, app_password |-> appPassword,
                    generate_alt |-> TRUE, gen |-> scanGen + 1,
                    seenResult |-> result, seenAltState |-> altState])
    /\ UNCHANGED <<handle, appPassword, applying, filterMode, applyCalls,
                   answered>>

\* onSubmit up to its await.  The request in flight carries what the fetch
\* sends and what the closure holds (`seenResult`, `seenAltState`: the
\* result and altState of the render the handler belongs to).
\* The submit button is disabled while `loading` (App.tsx:295) but the
\* handler has no guard of its own: a call made while the flag is set is
\* allowed and recorded in `reentered`.
onSubmit ==
    /\ lastCall' = "onSubmit"
    /\ nOps < MaxOps
    /\ Len(scanCalls) < MaxPending
    /\ nOps' = nOps + 1
    /\ scanGen' = scanGen + 1
    /\ applyMessage' = Null
    /\ result' = NoResult
    /\ altState' = EmptyMap
    /\ resultGen' = 0
    /\ reentered' = (reentered \/ loading)
    /\ IF handle = "" \/ appPassword = ""
       THEN /\ error' = "Please enter both handle and app password."
            /\ UNCHANGED <<loading, scanCalls>>
       ELSE /\ error' = Null
            /\ loading' = TRUE
            /\ scanCalls' = Append(scanCalls,
                   [handle |-> handle, app_password |-> appPassword,
                    generate_alt |-> TRUE, gen |-> scanGen + 1,
                    seenResult |-> result, seenAltState |-> altState])
    /\ UNCHANGED <<handle, appPassword, applying, filterMode, applyCalls,
                   answered>>

\* The scan call i resolves with the response `data`.
onSubmitResolved(i, data) ==
    /\ i \in 1..Len(scanCalls)
    /\ result' = data
    /\ altState' = initAltStateFromResult(data)
    /\ answered' = Resolved("scan", <<>>)
    /\ resultGen' = scanCalls[i].gen
    /\ loading' = FALSE
    /\ scanCalls' = Remove(scanCalls, i)
    /\ UNCHANGED <<handle, appPassword, applying, error, applyMessage,
                   filterMode, applyCalls, scanGen, nOps, lastCall,
                   reentered>>

\* A slip in the failure path: the finally block is missing.
onSubmitRejectedKeepsLoading(i, message) ==
    /\ i \in 1..Len(scanCalls)
    /\ error' = ErrorText(message, "An error occurred while scanning.")
    /\ answered' = Rejected("scan", message)
    /\ scanCalls' = Remove(scanCalls, i)
    /\ UNCHANGED <<handle, appPassword, loading, applying, applyMessage,
                   result, altState, filterMode, applyCalls, scanGen,
                   resultGen, nOps, lastCall, reentered>>

\* A slip in the catch block: it resets both stores.
onSubmitRejectedClears(i, message) ==
    /\ i \in 1..Len(scanCalls)
    /\ error' = ErrorText(message, "An error occurred while scanning.")
    /\ answered' = Rejected("scan", message)
    /\ result' = NoResult
    /\ altState' = EmptyMap
    /\ resultGen' = 0
    /\ loading' = FALSE
    /\ scanCalls' = Remove(scanCalls, i)
    /\ UNCHANGED <<handle, appPassword, applying, applyMessage, filterMode,
                   applyCalls, scanGen, nOps, lastCall, reentered>>

\* The scan call i rejects with an error whose message is `message`.
onSubmitRejected(i, message) ==
    /\ i \in 1..Len(scanCalls)
    /\ error' = ErrorText(message, "An error occurred while scanning.")
    /\ answered' = Rejected("scan", message)
    /\ loading' = FALSE
    /\ scanCalls' = Remove(scanCalls, i)
    /\ UNCHANGED <<handle, appPassword, applying, applyMessage, result,
                   altState, filterMode, applyCalls, scanGen, resultGen,
                   nOps, lastCall, reentered>>

\* A slip in the draft edit: typing ticks the image.
SetDraftTicks(uri, index, value) ==
    Put(altState, makeKey(uri, index), [apply |-> TRUE, draftAlt |-> value])

\* handleAltChange(uri, index, value).
SetDraft(uri, index, value) ==
    LET key == makeKey(uri, index) IN
    Put(altState, key,
        [apply |-> IF key \in DOMAIN altState THEN altState[key].apply ELSE FALSE,
         draftAlt |-> value])

\* The textarea of a card on screen changes to `value`, another text than
\* the one it shows.
handleAltChange(card, value) ==
    /\ lastCall' = "handleAltChange"
    /\ nOps < MaxOps
    /\ card \in Cards
    /\ value # Displayed(card.uri, card.img).draftAlt
    /\ altState' = SetDraft(card.uri, card.img.index, value)
    /\ nOps' = nOps + 1
    /\ UNCHANGED <<handle, appPassword, loading, applying, error,
                   applyMessage, result, filterMode, scanCalls, applyCalls,
                   scanGen, resultGen, answered, reentered>>

\* A slip in the toggle: the stored draft is not carried over.
SetApplyDropsDraft(uri, index, apply) ==
    Put(altState, makeKey(uri, index), [apply |-> apply, draftAlt |-> ""])

\* handleApplyToggle(uri, index, apply).
SetApply(uri, index, apply) ==
    LET key == makeKey(uri, index) IN
    Put(altState, key,
        [apply |-> apply,
         draftAlt |-> IF key \in DOMAIN altState THEN altState[key].draftAlt ELSE ""])

\* The checkbox of a card on screen is clicked: e.target.checked is the
\* opposite of the `checked` the card was rendered with.
handleApplyToggle(card) ==
    /\ lastCall' = "handleApplyToggle"
    /\ nOps < MaxOps
    /\ card \in Cards
    /\ altState' = SetApply(card.uri, card.img.index,
                            ~Displayed(card.uri, card.img).apply)
    /\ nOps' = nOps + 1
    /\ UNCHANGED <<handle, appPassword, loading, applying, error,
                   applyMessage, result, filterMode, scanCalls, applyCalls,
                   scanGen, resultGen, answered, reentered>>

\* onApplyChanges up to its await.  Without a result it returns at once.
\* The request in flight carries what the fetch sends and what the closure
\* holds (`seenResult`, `seenAltState`), which the continuation merges;
\* `gen` and `submits` are history: the submit the result stems from and
\* the number of submits so far.
\* The button is disabled while `applying` (App.tsx:329); a call made while
\* the flag is set is allowed and recorded in `reentered`.
onApplyChanges ==
    IF result = NoResult THEN UNCHANGED vars
    ELSE
    /\ nOps < MaxOps
    /\ Len(applyCalls) < MaxPending
    /\ lastCall' = "onApplyChanges"
    /\ nOps' = nOps + 1
    /\ error' = Null
    /\ LET updates == BuildUpdates(AllImages(result.posts), altState) IN
       IF NoUpdates(updates)
       THEN /\ applyMessage' = "No images selected for update."
            /\ UNCHANGED <<applying, applyCalls, reentered>>
       ELSE /\ applyMessage' = Null
            /\ applying' = TRUE
            /\ reentered' = (reentered \/ applying)
            /\ applyCalls' = Append(applyCalls,
                   [handle |-> handle, app_password |-> appPassword,
                    updates |-> updates, gen |-> resultGen, submits |-> scanGen,
                    seenResult |-> result, seenAltState |-> altState])
    /\ UNCHANGED <<handle, appPassword, loading, result, altState,
                   filterMode, scanCalls, scanGen, resultGen, answered>>

\* A slip in the success path: the selection is cleared once it is applied.
onApplyChangesResolvedUnticks(i, updated) ==
    /\ i \in 1..Len(applyCalls)
    /\ applyMessage' = SummaryMessage(updated)
    /\ answered' = Resolved("apply", updated)
    /\ result' = MergeResult(applyCalls[i].seenResult, applyCalls[i].seenAltState)
    /\ resultGen' = applyCalls[i].gen
    /\ altState' = [k \in DOMAIN altState |-> [altState[k] EXCEPT !.apply = FALSE]]
    /\ applying' = FALSE
    /\ applyCalls' = Remove(applyCalls, i)
    /\ UNCHANGED <<handle, appPassword, loading, error, filterMode,
                   scanCalls, scanGen, nOps, lastCall, reentered>>

\* The apply call i resolves with the response {updated}.
onApplyChangesResolved(i, updated) ==
    /\ i \in 1..Len(applyCalls)
    /\ applyMessage' = SummaryMessage(updated)
    /\ answered' = Resolved("apply", updated)
    /\ result' = MergeResult(applyCalls[i].seenResult, applyCalls[i].seenAltState)
    /\ resultGen' = applyCalls[i].gen
    /\ applying' = FALSE
    /\ applyCalls' = Remove(applyCalls, i)
    /\ UNCHANGED <<handle, appPassword, loading, error, altState, filterMode,
                   scanCalls, scanGen, nOps, lastCall, reentered>>

\* A slip in the catch block: the optimistic update runs on failure too.
onApplyChangesRejectedMerges(i, message) ==
    /\ i \in 1..Len(applyCalls)
    /\ error' = ErrorText(message, "An error occurred while applying changes.")
    /\ answered' = Rejected("apply", message)
    /\ result' = MergeResult(applyCalls[i].seenResult, applyCalls[i].seenAltState)
    /\ resultGen' = applyCalls[i].gen
    /\ applying' = FALSE
    /\ applyCalls' = Remove(applyCalls, i)
    /\ UNCHANGED <<handle, appPassword, loading, applyMessage, altState,
                   filterMode, scanCalls, scanGen, nOps, lastCall, reentered>>

\* The apply call i rejects with an error whose message is `message`.
onApplyChangesRejected(i, message) ==
    /\ i \in 1..Len(applyCalls)
    /\ error' = ErrorText(message, "An error occurred while applying changes.")
    /\ answered' = Rejected("apply", message)
    /\ applying' = FALSE
    /\ applyCalls' = Remove(applyCalls, i)
    /\ UNCHANGED <<handle, appPassword, loading, applyMessage, result,
                   altState, filterMode, scanCalls, scanGen, resultGen, nOps,
                   lastCall, reentered>>

\* A slip in the bulk select: it always takes the default draft.
RECURSIVE SelectFoldOverwrites(_, _)
SelectFoldOverwrites(next, items) ==
    IF items = <<>> THEN next
    ELSE LET uri == Head(items).uri
             img == Head(items).img
             key == makeKey(uri, img.index)
         IN  IF ~HasAlt(img)
             THEN SelectFoldOverwrites(
                      Put(next, key, [apply |-> TRUE, draftAlt |-> BaseAlt(img)]),
                      Tail(items))
             ELSE SelectFoldOverwrites(next, Tail(items))

\* The updater of bulkSelectMissingAlt, over the images `items` of `result`.
RECURSIVE SelectFold(_, _)
SelectFold(next, items) ==
    IF items = <<>> THEN next
    ELSE LET uri == Head(items).uri
             img == Head(items).img
             key == makeKey(uri, img.index)
             existing == IF key \in DOMAIN next THEN next[key]
                         ELSE [apply |-> FALSE, draftAlt |-> BaseAlt(img)]
         IN  IF ~HasAlt(img)
             THEN SelectFold(Put(next, key, [existing EXCEPT !.apply = TRUE]),
                             Tail(items))
             ELSE SelectFold(next, Tail(items))

\* A slip in the bulk select: it writes the selection back at once.
bulkSelectMissingAltApplies ==
    /\ lastCall' = "bulkSelectMissingAlt"
    /\ nOps < MaxOps
    /\ result # NoResult
    /\ Len(applyCalls) < MaxPending
    /\ altState' = SelectFold(altState, AllImages(result.posts))
    /\ applyCalls' = Append(applyCalls,
           [handle |-> handle, app_password |-> appPassword,
            updates |-> BuildUpdates(AllImages(result.posts), altState'),
            gen |-> resultGen, submits |-> scanGen,
            seenResult |-> result, seenAltState |-> altState'])
    /\ nOps' = nOps + 1
    /\ UNCHANGED <<handle, appPassword, loading, applying, error,
                   applyMessage, result, filterMode, scanCalls, scanGen,
                   resultGen, answered, reentered>>

\* The buttons below sit in the results section, rendered only with a result.
bulkSelectMissingAlt ==
    /\ lastCall' = "bulkSelectMissingAlt"
    /\ nOps < MaxOps
    /\ result # NoResult
    /\ altState' = SelectFold(altState, AllImages(result.posts))
    /\ nOps' = nOps + 1
    /\ UNCHANGED <<handle, appPassword, loading, applying, error,
                   applyMessage, result, filterMode, scanCalls, applyCalls,
                   scanGen, resultGen, answered, reentered>>

\* A slip in the bulk clear: it drops the drafts with the flags.
ClearAllDrafts(prev) == [k \in DOMAIN prev |-> [apply |-> FALSE, draftAlt |-> ""]]

\* for (const [key, value] of Object.entries(prev)) next[key] = {...value, apply: false}
ClearAll(prev) == [k \in DOMAIN prev |-> [prev[k] EXCEPT !.apply = FALSE]]

bulkClearSelections ==
    /\ lastCall' = "bulkClearSelections"
    /\ nOps < MaxOps
    /\ result # NoResult
    /\ altState' = ClearAll(altState)
    /\ nOps' = nOps + 1
    /\ UNCHANGED <<handle, appPassword, loading, applying, error,
                   applyMessage, result, filterMode, scanCalls, applyCalls,
                   scanGen, resultGen, answered, reentered>>

\* A click on another filter button than the active one.
setFilterMode(mode) ==
    /\ lastCall' = "setFilterMode"
    /\ nOps < MaxOps
    /\ result # NoResult
    /\ mode # filterMode
    /\ filterMode' = mode
    /\ nOps' = nOps + 1
    /\ UNCHANGED <<handle, appPassword, loading, applying, error,
                   applyMessage, result, altState, scanCalls, applyCalls,
                   scanGen, resultGen, answered, reentered>>

Next ==
    \/ \E v \in Handles : setHandle(v)
    \/ \E v \in Passwords : setAppPassword(v)
    \/ onSubmit
    \/ \E i \in 1..MaxPending, data \in ScanResponses : onSubmitResolved(i, data)
    \/ \E i \in 1..MaxPending, m \in RejectMessages : onSubmitRejected(i, m)
    \/ \E card \in Cards, v \in Drafts : handleAltChange(card, v)
    \/ \E card \in Cards : handleApplyToggle(card)
    \/ onApplyChanges
    \/ \E i \in 1..MaxPending, u \in ApplyResponses : onApplyChangesResolved(i, u)
    \/ \E i \in 1..MaxPending, m \in RejectMessages : onApplyChangesRejected(i, m)
    \/ bulkSelectMissingAlt
    \/ bulkClearSelections
    \/ \E mode \in FilterModes : setFilterMode(mode)

Spec == Init /\ [][Next]_vars

\* The failure paths with every kind of non-success body: the user submits
\* scans and applies, and the calls reject with any message of ErrMessages.
NextErr ==
    \/ \E v \in Handles : setHandle(v)
    \/ \E v \in Passwords : setAppPassword(v)
    \/ onSubmit
    \/ \E i \in 1..MaxPending, data \in ScanResponses : onSubmitResolved(i, data)
    \/ \E i \in 1..MaxPending, m \in ErrMessages : onSubmitRejected(i, m)
    \/ onApplyChanges
    \/ \E i \in 1..MaxPending, m \in ErrMessages : onApplyChangesRejected(i, m)

SpecErr == Init /\ [][NextErr]_vars

----------------------------------------------------------------------------
(* Steps, named for the properties below.                                  *)

\* A request to the scan (apply) endpoint is answered in this step.
ScanAnswered == Len(scanCalls') < Len(scanCalls)
ApplyAnswered == Len(applyCalls') < Len(applyCalls)

\* The answer delivered in this step, by kind.
ScanResolvedStep == ScanAnswered /\ answered'.call = "scan" /\ answered'.ok
ScanRejectedStep == ScanAnswered /\ answered'.call = "scan" /\ ~answered'.ok
ApplyResolvedStep == ApplyAnswered /\ answered'.call = "apply" /\ answered'.ok
ApplyRejectedStep == ApplyAnswered /\ answered'.call = "apply" /\ ~answered'.ok

\* The call i is the one answered in this step.
AnsweredScan(i) == scanCalls' = Remove(scanCalls, i)
AnsweredApply(i) == applyCalls' = Remove(applyCalls, i)

\* A request to the apply endpoint leaves in this step.
IssuesApply == Len(applyCalls') > Len(applyCalls)

\* The stored entry of the image has apply = true and a draft that is not
\* empty after trimming.
Selected(states, item) ==
    LET key == makeKey(item.uri, item.img.index) IN
    /\ key \in DOMAIN states
    /\ states[key].apply
    /\ Trim(states[key].draftAlt) # ""

\* The existing alt of the image is non-empty after trimming.
AltPresent(img) == img.alt # Null /\ Trim(img.alt) # ""

ImagesOf(res) == IF res = NoResult THEN <<>> ELSE AllImages(res.posts)

----------------------------------------------------------------------------
(* C1: the batch of a submitted apply request holds, in scan order, exactly *)
(* one update {uri, image_index, new_alt} for each image of the scan result *)
(* whose stored entry has apply = true and a draft that is non-empty after  *)
(* trimming, with new_alt the trimmed draft; so no image whose trimmed draft *)
(* is empty is in a submitted batch, whatever its apply flag.               *)

ExpectedBatch(res, states) ==
    LET chosen == SelectSeq(ImagesOf(res), LAMBDA item : Selected(states, item)) IN
    [k \in 1..Len(chosen) |->
        [uri |-> chosen[k].uri,
         image_index |-> chosen[k].img.index,
         new_alt |-> Trim(states[makeKey(chosen[k].uri, chosen[k].img.index)].draftAlt)]]

C1_BatchIsSelection ==
    [][IssuesApply =>
        LET updates == applyCalls'[Len(applyCalls')].updates IN
        /\ updates = ExpectedBatch(result, altState)
        /\ \A k \in 1..Len(updates) : updates[k].new_alt # ""]_vars

\* A request in flight whose batch holds a trimmed draft ("dog" for " dog ")
\* and leaves out an image that has apply = true and an empty trimmed draft.
C1_Witness ==
    \E i \in 1..Len(applyCalls) :
        LET q == applyCalls[i] IN
        /\ \E k \in 1..Len(q.updates) : q.updates[k].new_alt = "dog"
        /\ \E key \in DOMAIN q.seenAltState :
              /\ q.seenAltState[key].apply
              /\ Trim(q.seenAltState[key].draftAlt) = ""
        /\ Len(q.updates) < Len(ImagesOf(q.seenResult))

(* C2: a request to the apply endpoint is issued only by onApplyChanges;    *)
(* scanning, editing a draft, toggling apply, bulk select, bulk clear and   *)
(* filter changes never issue one.                                          *)
C2_OnlyApplyWritesBack == [][IssuesApply => onApplyChanges]_vars

\* After a scan and a draft edit, the one request to the apply endpoint is
\* the one onApplyChanges issued.
C2_Witness ==
    /\ Len(applyCalls) = 1
    /\ nOps = 3
    /\ \E key \in DOMAIN altState : altState[key].draftAlt = " dog "

(* C3: with a scan result present and no image that has both apply = true   *)
(* and a non-empty trimmed draft, onApplyChanges issues no request, sets    *)
(* the message "No images selected for update.", does not set the applying  *)
(* flag and leaves the scan result and the selection state unchanged.       *)
NoneSelected ==
    \A k \in 1..Len(ImagesOf(result)) : ~Selected(altState, ImagesOf(result)[k])

C3_EmptyBatchShortCircuits ==
    [][(onApplyChanges /\ result # NoResult /\ NoneSelected) =>
        /\ applyCalls' = applyCalls
        /\ applyMessage' = "No images selected for update."
        /\ applying' = applying
        /\ result' = result
        /\ altState' = altState]_vars

\* The short cut was taken although an image has apply = true (its draft is
\* empty after trimming).
C3_Witness ==
    /\ applyMessage = "No images selected for update."
    /\ result # NoResult
    /\ applyCalls = <<>>
    /\ ~applying
    /\ \E key \in DOMAIN altState : altState[key].apply

(* C4: right after a successful scan, every image of the result whose       *)
(* existing alt is non-empty after trimming has the stored entry            *)
(* apply = false, draftAlt = the existing alt as returned (untrimmed).      *)
C4_DefaultsWithAlt ==
    [][ScanResolvedStep =>
        \A k \in 1..Len(ImagesOf(result')) :
            LET item == ImagesOf(result')[k]
                key == makeKey(item.uri, item.img.index)
            IN  AltPresent(item.img) =>
                    /\ key \in DOMAIN altState'
                    /\ altState'[key] = [apply |-> FALSE, draftAlt |-> item.img.alt]]_vars

\* Just after the first scan: an image with alt " cat " and a suggestion has
\* the entry {apply: false, draftAlt: " cat "}.
C4_Witness ==
    /\ nOps = 1
    /\ \E k \in 1..Len(ImagesOf(result)) :
          LET item == ImagesOf(result)[k]
              key == makeKey(item.uri, item.img.index)
          IN  /\ item.img.alt = " cat "
              /\ item.img.generated_alt = "a cat"
              /\ key \in DOMAIN altState
              /\ altState[key] = [apply |-> FALSE, draftAlt |-> " cat "]

(* C5: right after a successful scan, every image of the result whose       *)
(* existing alt is absent, null, empty or whitespace-only has the stored    *)
(* entry apply = true, draftAlt = generated_alt when that is present and    *)
(* non-empty, else the empty string.                                        *)
C5_DefaultsWithoutAlt ==
    [][ScanResolvedStep =>
        \A k \in 1..Len(ImagesOf(result')) :
            LET item == ImagesOf(result')[k]
                key == makeKey(item.uri, item.img.index)
                gen == item.img.generated_alt
            IN  ~AltPresent(item.img) =>
                    /\ key \in DOMAIN altState'
                    /\ altState'[key] =
                          [apply |-> TRUE,
                           draftAlt |-> IF gen # Null /\ gen # "" THEN gen ELSE ""]]_vars

\* Just after the first scan: a whitespace-only alt with an empty suggestion
\* gives {apply: true, draftAlt: ""}, a null alt with a suggestion gives
\* {apply: true, draftAlt: the suggestion}.
C5_Witness ==
    /\ nOps = 1
    /\ \E k \in 1..Len(ImagesOf(result)) :
          LET item == ImagesOf(result)[k] IN
          /\ item.img.alt = " "
          /\ altState[makeKey(item.uri, item.img.index)] = [apply |-> TRUE, draftAlt |-> ""]
    /\ \E k \in 1..Len(ImagesOf(result)) :
          LET item == ImagesOf(result)[k] IN
          /\ item.img.alt = Null
          /\ altState[makeKey(item.uri, item.img.index)] = [apply |-> TRUE, draftAlt |-> "a dog"]

(* C6: when an apply request fails at the transport/protocol level nothing  *)
(* is reconciled: the failure step leaves the scan result and the           *)
(* selection state as they are, sets an error message and returns the       *)
(* applying flag to false; and when the stored result still stems from the  *)
(* scan the apply was triggered on (no trigger ran re-entrantly), it is the *)
(* result the apply was triggered on.                                       *)
C6_ApplyFailureReconcilesNothing ==
    [][\A i \in 1..Len(applyCalls) :
        (ApplyRejectedStep /\ AnsweredApply(i)) =>
            /\ result' = result
            /\ altState' = altState
            /\ error' # Null /\ error' # ""
            /\ applying' = FALSE
            /\ (~reentered /\ resultGen = applyCalls[i].gen) =>
                    result' = applyCalls[i].seenResult]_vars

\* One scan, which succeeded, then an apply that failed: the error is set,
\* the result is still there and no request is left.
C6_Witness ==
    /\ scanGen = 1
    /\ result # NoResult
    /\ error = "Failed to fetch"
    /\ ~applying
    /\ applyCalls = <<>>
    /\ scanCalls = <<>>

C8_NoStaleResult ==
    (~reentered /\ result # NoResult) => resultGen = scanGen

(* C9: when an apply request resolves, the stored scan result is the result *)
(* the apply was triggered on with, for every image of the submitted batch, *)
(* the alt replaced by the new_alt submitted for it, whatever the response  *)
(* reports and whatever the user changed in the selection state meanwhile;  *)
(* every other image has the alt it had when the apply was triggered.       *)
C9_MergeFollowsBatch ==
    [][\A i \in 1..Len(applyCalls) :
        (ApplyResolvedStep /\ AnsweredApply(i)) =>
            LET q == applyCalls[i]
                before == ImagesOf(q.seenResult)
                after == ImagesOf(result')
            IN  /\ Len(after) = Len(before)
                /\ \A k \in 1..Len(before) :
                      LET hits == {j \in 1..Len(q.updates) :
                                      /\ q.updates[j].uri = before[k].uri
                                      /\ q.updates[j].image_index = before[k].img.index}
                      IN  /\ after[k].uri = before[k].uri
                          /\ after[k].img.index = before[k].img.index
                          /\ after[k].img.generated_alt = before[k].img.generated_alt
                          /\ \A j \in hits : after[k].img.alt = q.updates[j].new_alt
                          /\ hits = {} => after[k].img.alt = before[k].img.alt]_vars

\* The response reported no success and the user had unticked the image
\* meanwhile, yet the stored result carries the submitted alt; the image
\* that was not in the batch kept its whitespace alt.
C9_Witness ==
    /\ applyMessage = "Applied alt text to 0 post(s). 1 post(s) failed; check logs/errors."
    /\ \E k \in 1..Len(ImagesOf(result)) :
          LET item == ImagesOf(result)[k]
              key == makeKey(item.uri, item.img.index)
          IN  /\ item.img.alt = "a dog"
              /\ key \in DOMAIN altState
              /\ ~altState[key].apply
    /\ \E k \in 1..Len(ImagesOf(result)) : ImagesOf(result)[k].img.alt = " "

(* C10: when an apply request resolves with a response that lists s items   *)
(* with success = true and f with success = false, the message becomes      *)
(* "Applied alt text to s post(s)." followed, iff f > 0, by                 *)
(* " f post(s) failed; check logs/errors."; s and f count the returned      *)
(* items, not the submitted updates, and the step sets no error.            *)
CountOf(updated, flag) ==
    Cardinality({j \in 1..Len(updated) : updated[j].success = flag})

C10_SummaryCountsReturnedItems ==
    [][ApplyResolvedStep =>
            LET s == CountOf(answered'.updated, TRUE)
                f == CountOf(answered'.updated, FALSE)
                head == "Applied alt text to " \o ToString(s) \o " post(s)."
                tail == " " \o ToString(f) \o " post(s) failed; check logs/errors."
            IN  /\ applyMessage' = IF f > 0 THEN head \o tail ELSE head
                /\ error' = error]_vars

\* One update was submitted (the other image has an empty draft) and the
\* response listed two items, one of them failed: the message counts the
\* two returned items and no error is set.
C10_Witness ==
    /\ applyMessage = "Applied alt text to 1 post(s). 1 post(s) failed; check logs/errors."
    /\ error = Null
    /\ result = Scan(<<Post("at://a/1", <<Image(0, "a dog", "a dog")>>),
                       Post("at://a/2", <<Image(0, " ", "")>>)>>)

----------------------------------------------------------------------------
\* The selection keys of the images of a result.
KeysOf(res) ==
    {makeKey(ImagesOf(res)[k].uri, ImagesOf(res)[k].img.index) :
        k \in 1..Len(ImagesOf(res))}

\* The draft Default Derivation gives an image without alt: generated_alt
\* when present and non-empty, else the empty string.
SuggestedDraft(img) ==
    IF img.generated_alt # Null /\ img.generated_alt # "" THEN img.generated_alt ELSE ""

\* `after` is what bulk select makes of `before` for the images `items`.
BulkSelected(before, after, items) ==
    /\ \A k \in 1..Len(items) :
          LET img == items[k].img
              key == makeKey(items[k].uri, img.index)
          IN  IF AltPresent(img)
              THEN /\ (key \in DOMAIN after) = (key \in DOMAIN before)
                   /\ key \in DOMAIN before => after[key] = before[key]
              ELSE /\ key \in DOMAIN after
                   /\ after[key].apply
                   /\ after[key].draftAlt =
                          IF key \in DOMAIN before THEN before[key].draftAlt
                          ELSE SuggestedDraft(img)
    /\ \A key \in DOMAIN before : key \in DOMAIN after
    /\ \A key \in DOMAIN after :
          key \in DOMAIN before \/ key \in {makeKey(items[k].uri, items[k].img.index) :
                                               k \in 1..Len(items)}

(* C11: bulkSelectMissingAlt is idempotent and leaves the entries of images *)
(* whose alt is non-empty after trimming, present or absent, as they were;  *)
(* for every image whose alt is absent or empty it sets apply = true and    *)
(* keeps a stored draftAlt, else initialises draftAlt to generated_alt or   *)
(* the empty string.  Stated of the updater in every reachable state with a *)
(* result, and of every bulkSelectMissingAlt step.                          *)
C11_BulkSelectIdempotent ==
    /\ [](result # NoResult =>
            LET items == ImagesOf(result)
                once == SelectFold(altState, items)
            IN  /\ SelectFold(once, items) = once
                /\ BulkSelected(altState, once, items))
    /\ [][bulkSelectMissingAlt =>
            /\ BulkSelected(altState, altState', ImagesOf(result))
            /\ SelectFold(altState', ImagesOf(result)) = altState'
            /\ result' = result]_vars

\* Bulk select ran last, after a draft edit: the image without alt is ticked
\* with the draft the user typed, not the suggestion, and the image with alt
\* " cat " is left unticked.
C11_Witness ==
    /\ lastCall = "bulkSelectMissingAlt"
    /\ nOps = 3
    /\ result = Scan(<<Post("at://a/1", <<Image(0, "", "a dog"), Image(1, " cat ", "a cat")>>)>>)
    /\ altState[makeKey("at://a/1", 0)] = [apply |-> TRUE, draftAlt |-> " dog "]
    /\ altState[makeKey("at://a/1", 1)] = [apply |-> FALSE, draftAlt |-> " cat "]

\* `after` is `before` with every apply flag false: same keys, same drafts.
Cleared(before, after) ==
    /\ DOMAIN after = DOMAIN before
    /\ \A key \in DOMAIN before :
          /\ ~after[key].apply
          /\ after[key].draftAlt = before[key].draftAlt

(* C12: bulkClearSelections sets apply = false for every entry of the       *)
(* selection store, leaves every draftAlt unchanged and neither creates nor *)
(* removes entries.  Stated of the updater in every reachable state and of  *)
(* every bulkClearSelections step.                                          *)
C12_BulkClearKeepsDrafts ==
    /\ [](Cleared(altState, ClearAll(altState)))
    /\ [][bulkClearSelections =>
            (Cleared(altState, altState') /\ result' = result)]_vars

\* Bulk clear ran last on a selection with a ticked entry whose draft the
\* user had typed: the entry is unticked and the draft is still there.
C12_Witness ==
    /\ lastCall = "bulkClearSelections"
    /\ nOps = 3
    /\ \E key \in DOMAIN altState : altState[key] = [apply |-> FALSE, draftAlt |-> " dog "]
    /\ \A key \in DOMAIN altState : ~altState[key].apply
    /\ DOMAIN altState = KeysOf(result)

\* `after` is `before` with the entry of `key` replaced by `entry`: every
\* other key has the entry, or the absence, it had.
OnlyEntryChanged(before, after, key, entry) ==
    /\ DOMAIN after = DOMAIN before \cup {key}
    /\ after[key] = entry
    /\ \A other \in DOMAIN before : other # key => after[other] = before[other]

\* No two images of the result share a key.
KeysDistinct(items) ==
    \A j, k \in 1..Len(items) :
        j # k => makeKey(items[j].uri, items[j].img.index)
                    # makeKey(items[k].uri, items[k].img.index)

(* C13: handleAltChange(uri, index, text) sets the draftAlt of that key to  *)
(* text, keeps the apply flag of that key (false when the key had no entry) *)
(* and leaves the entry of every other key and the scan result unchanged.   *)
(* Stated of the updater for every image of the result in every reachable   *)
(* state, and of every handleAltChange step.                                *)
C13_SetDraftKeepsApply ==
    /\ [](/\ KeysDistinct(ImagesOf(result))
          /\ \A k \in 1..Len(ImagesOf(result)), v \in Drafts :
                LET item == ImagesOf(result)[k]
                    key == makeKey(item.uri, item.img.index)
                IN  OnlyEntryChanged(altState, SetDraft(item.uri, item.img.index, v), key,
                        [apply |-> IF key \in DOMAIN altState
                                   THEN altState[key].apply ELSE FALSE,
                         draftAlt |-> v]))
    /\ [][\A card \in Cards, v \in Drafts :
            handleAltChange(card, v) =>
                LET key == makeKey(card.uri, card.img.index) IN
                /\ OnlyEntryChanged(altState, altState', key,
                        [apply |-> IF key \in DOMAIN altState
                                   THEN altState[key].apply ELSE FALSE,
                         draftAlt |-> v])
                /\ result' = result]_vars

\* A draft edit ran last: the edited image has the typed draft and is still
\* unticked, the other image has the entry the scan gave it.
C13_Witness ==
    /\ lastCall = "handleAltChange"
    /\ nOps = 2
    /\ DOMAIN altState = {makeKey("at://a/1", 0), makeKey("at://a/1", 1)}
    /\ altState[makeKey("at://a/1", 1)] = [apply |-> FALSE, draftAlt |-> " dog "]
    /\ altState[makeKey("at://a/1", 0)] = [apply |-> TRUE, draftAlt |-> "a dog"]

(* C14: handleApplyToggle(uri, index, b) sets the apply flag of that key to *)
(* b, keeps the stored draftAlt of that key (the empty string when the key  *)
(* had no entry, not the default the card displays) and leaves the entry of *)
(* every other key and the scan result unchanged.  Stated of the updater    *)
(* for every image of the result in every reachable state, and of every     *)
(* handleApplyToggle step.                                                  *)
C14_SetApplyKeepsDraft ==
    /\ [](\A k \in 1..Len(ImagesOf(result)), b \in BOOLEAN :
            LET item == ImagesOf(result)[k]
                key == makeKey(item.uri, item.img.index)
            IN  OnlyEntryChanged(altState, SetApply(item.uri, item.img.index, b), key,
                    [apply |-> b,
                     draftAlt |-> IF key \in DOMAIN altState
                                  THEN altState[key].draftAlt ELSE ""]))
    /\ [][\A card \in Cards :
            handleApplyToggle(card) =>
                LET key == makeKey(card.uri, card.img.index) IN
                /\ OnlyEntryChanged(altState, altState', key,
                        [apply |-> ~Displayed(card.uri, card.img).apply,
                         draftAlt |-> IF key \in DOMAIN altState
                                      THEN altState[key].draftAlt ELSE ""])
                /\ result' = result]_vars

\* A toggle ran last: the image with alt " cat " is now ticked and has the
\* draft it had, the other image has the entry the scan gave it.
C14_Witness ==
    /\ lastCall = "handleApplyToggle"
    /\ nOps = 2
    /\ DOMAIN altState = {makeKey("at://a/1", 0), makeKey("at://a/1", 1)}
    /\ altState[makeKey("at://a/1", 1)] = [apply |-> TRUE, draftAlt |-> " cat "]
    /\ altState[makeKey("at://a/1", 0)] = [apply |-> TRUE, draftAlt |-> "a dog"]

\* The Default-Derivation state of an image: ticked iff its alt is absent or
\* empty after trimming; the alt as draft when it is not, else the suggestion,
\* else the empty string.
DerivedDefault(img) ==
    [apply |-> ~AltPresent(img),
     draftAlt |-> IF AltPresent(img) THEN img.alt ELSE SuggestedDraft(img)]

(* C15: for every image of the stored scan result without a stored entry,  *)
(* the state read for it is the Default-Derivation default: the card        *)
(* displays it, the "selected" filter shows the image iff that default is   *)
(* ticked, and batch building selects it iff it is ticked with a non-empty  *)
(* trimmed draft.  Stated for behaviours in which no trigger ran while its  *)
(* own flag was set.                                                        *)
C15_AbsentEntryReadsAsDefault ==
    (~reentered /\ result # NoResult) =>
        \A k \in 1..Len(ImagesOf(result)) :
            LET item == ImagesOf(result)[k]
                key == makeKey(item.uri, item.img.index)
                default == DerivedDefault(item.img)
            IN  key \notin DOMAIN altState =>
                    /\ Displayed(item.uri, item.img) = default
                    /\ shouldShowImage("selected", item.uri, item.img) = default.apply
                    /\ (BuildUpdates(<<item>>, altState) # <<>>)
                          = (default.apply /\ Trim(default.draftAlt) # "")

\* The positions, in the stored result, of the images a filter mode shows.
Visible(mode) ==
    {k \in 1..Len(ImagesOf(result)) :
        shouldShowImage(mode, ImagesOf(result)[k].uri, ImagesOf(result)[k].img)}

(* C16: for the stored scan result and selection state, the images shown    *)
(* under "missingAlt" and under "hasAlt" are disjoint and together are the  *)
(* images shown under "all", which are all images; "hasAlt" shows the       *)
(* images whose alt is non-empty after trimming; "selected" shows exactly   *)
(* the images whose stored entry has apply = true; the cards on screen are  *)
(* the images the active mode shows.                                        *)
C16_FiltersPartition ==
    result # NoResult =>
        LET items == ImagesOf(result) IN
        /\ Visible("missingAlt") \cap Visible("hasAlt") = {}
        /\ Visible("missingAlt") \cup Visible("hasAlt") = Visible("all")
        /\ Visible("all") = 1..Len(items)
        /\ Visible("hasAlt") = {k \in 1..Len(items) : AltPresent(items[k].img)}
        /\ Visible("selected") =
              {k \in 1..Len(items) :
                  LET key == makeKey(items[k].uri, items[k].img.index) IN
                  key \in DOMAIN altState /\ altState[key].apply}
        /\ Cards = {items[k] : k \in Visible(filterMode)}

\* The filter was just switched to "missingAlt" on a result with a
\* whitespace-only alt and a null alt: both images are shown, none under
\* "hasAlt", and only the ticked one under "selected".
C16_Witness ==
    /\ lastCall = "setFilterMode"
    /\ filterMode = "missingAlt"
    /\ result # NoResult
    /\ Visible("missingAlt") = {1, 2}
    /\ Visible("hasAlt") = {}
    /\ Visible("selected") = {2}
    /\ \E k \in 1..Len(ImagesOf(result)) : ImagesOf(result)[k].img.alt = " "

\* The generic text of the call answered in this step.
GenericOf(call) ==
    IF call = "scan" THEN "An error occurred while scanning."
    ELSE "An error occurred while applying changes."

\* A call is rejected in this step with the Error thrown for a non-success
\* response of status 500 and body `body`.
FailsWithBody(body) ==
    /\ ScanRejectedStep \/ ApplyRejectedStep
    /\ answered'.message = ThrownMessage(body, 500)

C18_LatestScanWins ==
    [][/\ \A i \in 1..Len(applyCalls) :
            (/\ ApplyResolvedStep /\ AnsweredApply(i)
             /\ ~reentered
             /\ applyCalls[i].submits < scanGen
             /\ resultGen = scanGen
             /\ result # NoResult) => result' = result
       /\ (ScanResolvedStep /\ ~reentered) =>
            (resultGen' = scanGen /\ result' # NoResult)]_vars

(* C19: submitting a scan clears, in the same step and before any request  *)
(* is issued, the scan result, the whole selection state, the apply message *)
(* and the error shown before (the error is then null, or the validation    *)
(* message of this submit), whatever the loading and applying flags; and an *)
(* apply issued before a submit sets no apply message when it resolves      *)
(* after that submit.  The second part is stated for behaviours in which no *)
(* trigger ran while its own flag was set.                                  *)
C19_SubmitClearsForGood ==
    [][/\ onSubmit =>
            /\ result' = NoResult
            /\ altState' = EmptyMap
            /\ applyMessage' = Null
            /\ error' \in {Null, "Please enter both handle and app password."}
       /\ \A i \in 1..Len(applyCalls) :
            (/\ ApplyResolvedStep /\ AnsweredApply(i)
             /\ ~reentered
             /\ applyCalls[i].submits < scanGen) => applyMessage' = applyMessage]_vars

(* C20: as long as no trigger ran while its own flag was set, loading is    *)
(* true exactly while a scan request is outstanding and applying exactly    *)
(* while an apply request is outstanding; the scan handler and its          *)
(* continuations never write applying, the apply handler and its            *)
(* continuations never write loading; and the step in which a request is    *)
(* answered, with success or failure, sets the flag of its kind to false.   *)
(* With re-entrant calls a flag can be false while a request of its kind is *)
(* outstanding: the witness is such a state.                                *)
C20_FlagsFollowRequests ==
    /\ [](~reentered =>
            /\ loading = (scanCalls # <<>>)
            /\ applying = (applyCalls # <<>>))
    /\ [][/\ (onSubmit \/ ScanAnswered) => applying' = applying
          /\ (onApplyChanges \/ ApplyAnswered) => loading' = loading
          /\ ScanAnswered => ~loading'
          /\ ApplyAnswered => ~applying']_vars

\* Two submits, the second while loading; one of the two calls was answered
\* and the other is outstanding with the flag already false.
C20_Witness ==
    /\ reentered
    /\ ~loading
    /\ Len(scanCalls) = 1
    /\ nOps = 2

(* C21: no step of the apply operation writes the selection state: not the  *)
(* call of onApplyChanges (short cut or request), not the step in which the *)
(* request resolves and not the step in which it rejects, so what the user  *)
(* edited or toggled while the request was outstanding is still stored      *)
(* afterwards; and when the selection state is as it was at the click, the  *)
(* batch built from the result and the selection after a resolve is the     *)
(* batch that was submitted.                                                *)
C21_ApplyNeverWritesSelection ==
    [][/\ (onApplyChanges \/ ApplyAnswered) => altState' = altState
       /\ \A i \in 1..Len(applyCalls) :
            (/\ ApplyResolvedStep /\ AnsweredApply(i)
             /\ altState = applyCalls[i].seenAltState) =>
                BuildUpdates(ImagesOf(result'), altState') = applyCalls[i].updates]_vars

\* A second apply right after a successful one: the request in flight was
\* built on a result that already carries the alt "a dog" and submits
\* "a dog" for that image again.
C21_Witness ==
    /\ lastCall = "onApplyChanges"
    /\ ~reentered
    /\ nOps = 3
    /\ answered.call = "apply" /\ answered.ok
    /\ Len(applyCalls) = 1
    /\ \E k \in 1..Len(ImagesOf(applyCalls[1].seenResult)) :
          LET item == ImagesOf(applyCalls[1].seenResult)[k] IN
          /\ item.img.alt = "a dog"
          /\ \E j \in 1..Len(applyCalls[1].updates) :
                /\ applyCalls[1].updates[j].uri = item.uri
                /\ applyCalls[1].updates[j].image_index = item.img.index
                /\ applyCalls[1].updates[j].new_alt = "a dog"

(* C22: in the step in which an apply request resolves, every image of the  *)
(* submitted batch has, in the stored scan result, an alt that is non-empty *)
(* after trimming; so the image is shown under "hasAlt" and hidden under    *)
(* "missingAlt", and bulk select after a bulk clear leaves it unticked.     *)
C22_AppliedImagesHaveAlt ==
    [][\A i \in 1..Len(applyCalls) :
        (ApplyResolvedStep /\ AnsweredApply(i)) =>
            LET after == ImagesOf(result')
                reselected == SelectFold(ClearAll(altState'), after)
            IN  \A j \in 1..Len(applyCalls[i].updates) :
                    LET u == applyCalls[i].updates[j]
                        hits == {k \in 1..Len(after) :
                                    /\ after[k].uri = u.uri
                                    /\ after[k].img.index = u.image_index}
                        key == makeKey(u.uri, u.image_index)
                    IN  /\ hits # {}
                        /\ \A k \in hits :
                              /\ AltPresent(after[k].img)
                              /\ shouldShowImage("hasAlt", after[k].uri, after[k].img)
                              /\ ~shouldShowImage("missingAlt", after[k].uri, after[k].img)
                        /\ key \in DOMAIN reselected => ~reselected[key].apply]_vars

\* After a resolved apply the image that had no alt carries "a dog": it is
\* shown under "hasAlt" and not under "missingAlt", while the image with
\* the whitespace alt, which was not in the batch, is still missing alt.
C22_Witness ==
    /\ answered.call = "apply" /\ answered.ok
    /\ lastCall = "onApplyChanges"
    /\ applyCalls = <<>>
    /\ result = Scan(<<Post("at://a/1", <<Image(0, "a dog", "a dog")>>),
                       Post("at://a/2", <<Image(0, " ", "")>>)>>)
    /\ Visible("hasAlt") = {1}
    /\ Visible("missingAlt") = {2}

(* C23: a submit with an empty handle or an empty app password issues no    *)
(* scan request and leaves the loading flag as it is, sets the error        *)
(* "Please enter both handle and app password.", and clears the scan        *)
(* result, the selection state and the apply message all the same.          *)
C23_EmptyCredentialsSubmit ==
    [][(onSubmit /\ (handle = "" \/ appPassword = "")) =>
        /\ scanCalls' = scanCalls
        /\ loading' = loading
        /\ error' = "Please enter both handle and app password."
        /\ result' = NoResult
        /\ altState' = EmptyMap
        /\ applyMessage' = Null]_vars

\* A scan had succeeded, the handle was cleared and the form submitted
\* again: the validation error is shown, nothing is in flight and the
\* result of the first scan is gone.
C23_Witness ==
    /\ lastCall = "onSubmit"
    /\ scanGen = 2
    /\ handle = ""
    /\ answered = Resolved("scan", <<>>)
    /\ error = "Please enter both handle and app password."
    /\ scanCalls = <<>>
    /\ ~loading
    /\ result = NoResult
    /\ altState = EmptyMap

====
